---- MODULE Spec2Model ----
(***************************************************************************)
(* Zappies-Central-API_v2: availability computation                        *)
(* (tools/google_calendar.py), the two booking entry points                *)
(* (api/server.py /book-appointment, tools/custom_tools.py                 *)
(* book_zappies_onboarding_call_from_json) and their collaborators.        *)
(*                                                                         *)
(* Time is counted in minutes since 00:00 of day 0 in the fixed timezone   *)
(* (SAST_TZ).  An aware datetime is the instant it denotes on that scale;  *)
(* a string that carries a time is a record that still has to be parsed.   *)
(***************************************************************************)
EXTENDS Integers, Sequences, FiniteSets, TLC

VARIABLES
    settings,       \* config.settings.VOICE_AGENT_CONFIG: business hours, slot duration
    credentials,    \* settings.GOOGLE_CREDENTIALS_STR: "valid" or "unset"
    now,            \* datetime.datetime.now(SAST_TZ), in minutes
    calendar,       \* the events of the Google calendar CALENDAR_ID
    eventSeq,       \* number of events the calendar has created so far (next id - 1)
    meetings,       \* the rows of the Supabase table "meetings"
    call_history,   \* the rows of the Supabase table "call_history"
    outbox,         \* notifications SMTP / Twilio accepted, in order
    avail,          \* the outcome of the get_available_slots call just made
    resp,           \* the response of the request just handled
    inflight,       \* GET /confirm-meeting/{id} requests accepted, not yet run
    chat_pc,        \* where each POST /chat request is in chat_with_agent
    conversation_locks,     \* conversation_id -> holder of its asyncio.Lock
    agent_semaphore,        \* free permits of asyncio.Semaphore(CONCURRENCY_LIMIT)
    conversation_history,   \* conversation_id -> status in "conversation_history"
    swept           \* what the last run of send_meeting_reminders did

(* The state of the /chat endpoint *)
chatVars == <<chat_pc, conversation_locks, agent_semaphore, conversation_history>>

vars == <<settings, credentials, now, calendar, eventSeq, meetings,
          call_history, outbox, avail, resp, inflight, chatVars, swept>>

----------------------------------------------------------------------------
(* Bounds of the model                                                     *)

MaxDay == 1          \* calendar days 0 .. MaxDay
MaxEvents == 2       \* events on the calendar before the first request
MaxMeetings == 1     \* rows in "meetings"

(* Events on the calendar in the deferred flow: one more than there are    *)
(* rows, so that an event can be created next to one that is there.        *)
MaxCreated == MaxMeetings + 1

(* Program constants                                                       *)

(* The step as a 30-minute increment: not the code's. *)
StepOfThirty == 60 \div 2

StepMinutes == 60            \* current_time += timedelta(minutes=60)
UtcOffsetMinutes == 120      \* SAST_TZ = UTC+02:00, no daylight saving
MINIMUM_BUDGET == 8000       \* book_zappies_onboarding_call_from_json

HourMinutes == 60 * 1
DayMinutes == 24 * HourMinutes

Days == 0 .. MaxDay

(* datetime.date() of an instant of the fixed timezone *)
DateOf(t) == t \div DayMinutes

(* datetime.replace(hour=h, minute=0, second=0, microsecond=0) *)
ReplaceHour(t, h) == DateOf(t) * DayMinutes + h * HourMinutes

----------------------------------------------------------------------------
(* tools/google_calendar.py: get_calendar_service                          *)

(* The client is built from GOOGLE_CREDENTIALS_STR; an unset string ends  *)
(* in ValueError (and so does one that does not decode).                   *)
get_calendar_service ==
    IF credentials = "valid" THEN "service" ELSE "ValueError"

----------------------------------------------------------------------------
(* tools/google_calendar.py: get_available_slots                           *)

(* A date argument: "YYYY-MM-DD" (fmt "date"), "YYYY-MM-DDTHH:MM" (fmt     *)
(* "datetime"), the same with a UTC offset (fmt "aware"), or a string that *)
(* is no ISO date (fmt "garbage").                                         *)
DateTods == {10 * HourMinutes + 30, 14 * HourMinutes}

DateInputs ==
    {[fmt |-> "date", day |-> d, tod |-> 0] : d \in Days}
    \cup {[fmt |-> "datetime", day |-> d, tod |-> m] : d \in Days, m \in DateTods}
    \cup {[fmt |-> "aware", day |-> 0, tod |-> 0],
          [fmt |-> "garbage", day |-> 0, tod |-> 0]}

(* datetime.datetime.fromisoformat(date): a naive or aware datetime, or    *)
(* ValueError.                                                             *)
fromisoformat(date) ==
    IF date.fmt = "garbage"
    THEN [error |-> "ValueError", naive |-> TRUE, minute |-> 0]
    ELSE [error |-> "none",
          naive |-> (date.fmt # "aware"),
          minute |-> date.day * DayMinutes
                     + (IF date.fmt = "date" THEN 0 ELSE date.tod)]

(* SAST_TZ.localize(dt): pytz raises ValueError on a datetime that already *)
(* has a tzinfo.                                                           *)
localize(dt) ==
    IF dt.error # "none" THEN [error |-> dt.error, instant |-> 0]
    ELSE IF ~dt.naive THEN [error |-> "ValueError", instant |-> 0]
    ELSE [error |-> "none", instant |-> dt.minute]

(* service.events().list(timeMin, timeMax, singleEvents=True): the events  *)
(* that end after timeMin and start before timeMax.                        *)
events_list(timeMin, timeMax) ==
    {e \in calendar : e.end > timeMin /\ e.start < timeMax}

(* The overlap test with closed ends: not the code's. *)
OverlapsClosed(current_time, slot_end, event) ==
    current_time <= event.end /\ slot_end >= event.start

(* (Slot starts < Event ends) and (Slot ends > Event starts) *)
Overlaps(current_time, slot_end, event) ==
    current_time < event.end /\ slot_end > event.start

is_free(current_time, slot_end, events) ==
    \A event \in events : ~Overlaps(current_time, slot_end, event)

(* The loop leaving as soon as a slot ends at the end of the working       *)
(* hours: not the code's.                                                  *)
RECURSIVE SlotLoopEndExclusive(_, _, _, _)
SlotLoopEndExclusive(current_time, working_hours_end, slot_duration, events) ==
    IF ~(current_time < working_hours_end) THEN <<>>
    ELSE LET slot_end == current_time + slot_duration IN
         IF slot_end >= working_hours_end THEN <<>>
         ELSE (IF \A event \in events :
                     ~(current_time < event.end /\ slot_end > event.start)
               THEN <<current_time>> ELSE <<>>)
              \o SlotLoopEndExclusive(current_time + 60, working_hours_end,
                                      slot_duration, events)

(* The while loop of get_available_slots, from current_time on. *)
RECURSIVE SlotLoop(_, _, _, _)
SlotLoop(current_time, working_hours_end, slot_duration, events) ==
    IF ~(current_time < working_hours_end) THEN <<>>
    ELSE LET slot_end == current_time + slot_duration IN
         IF slot_end > working_hours_end THEN <<>>
         ELSE (IF is_free(current_time, slot_end, events)
               THEN <<current_time>> ELSE <<>>)
              \o SlotLoop(current_time + StepMinutes, working_hours_end,
                          slot_duration, events)

Returned(slots) == [outcome |-> "returned", slots |-> slots]
Raised(exc) == [outcome |-> exc, slots |-> <<>>]

(* get_available_slots(date); listOk says whether events().list().execute() *)
(* answers or raises.                                                      *)
get_available_slots(date, listOk) ==
    IF get_calendar_service = "ValueError" THEN Raised("ValueError")
    ELSE
    LET day_start == localize(fromisoformat(date)) IN
    IF day_start.error # "none" THEN Returned(<<>>)
    ELSE
    LET day_end == day_start.instant + DayMinutes
        working_hours_start ==
            ReplaceHour(day_start.instant, settings.BUSINESS_HOURS_START)
        working_hours_end ==
            ReplaceHour(day_start.instant, settings.BUSINESS_HOURS_END)
    IN  IF ~listOk THEN Returned(<<>>)
        ELSE Returned(SlotLoop(working_hours_start, working_hours_end,
                               settings.APPOINTMENT_DURATION_MINUTES,
                               events_list(day_start.instant, day_end)))

----------------------------------------------------------------------------
(* tools/google_calendar.py: create_calendar_event                         *)

(* A start_time argument: a string without offset (fmt "naive", read in    *)
(* the fixed timezone), a string with offset +00:00 (fmt "utc") whose      *)
(* reading is taken on the UTC clock, or a string dateutil cannot parse.   *)
NaiveTods == {9 * HourMinutes, 10 * HourMinutes}
UtcTods == {22 * HourMinutes + 30}

GarbageStart == [fmt |-> "garbage", minute |-> 0]

StartInputs ==
    {[fmt |-> "naive", minute |-> d * DayMinutes + m] : d \in Days, m \in NaiveTods}
    \cup {[fmt |-> "utc", minute |-> m] : m \in UtcTods}
    \cup {GarbageStart}

(* dateutil.parser.parse(start_time): ParserError is a ValueError. *)
parse(start_time) ==
    IF start_time.fmt = "garbage"
    THEN [error |-> "ParserError", naive |-> TRUE, minute |-> 0]
    ELSE [error |-> "none", naive |-> (start_time.fmt = "naive"),
          minute |-> start_time.minute]

(* InSast without the offset of the fixed timezone: not the code's. *)
InSastNoShift(parsed) == parsed.minute

(* parsed.astimezone(SAST_TZ) for an aware datetime, SAST_TZ.localize for  *)
(* a naive one: the instant on the scale of the fixed timezone.            *)
InSast(parsed) ==
    IF parsed.naive THEN parsed.minute ELSE parsed.minute + UtcOffsetMinutes

(* The validation with the same-day test first: not the code's. *)
ValidateSameDayFirst(start, now_sast) ==
    IF DateOf(start) = DateOf(now_sast) THEN "SameDay"
    ELSE IF start < now_sast THEN "PastDate"
    ELSE "none"

(* The validation without the same-day test: not the code's. *)
ValidatePastOnly(start, now_sast) ==
    IF start < now_sast THEN "PastDate" ELSE "none"

(* if start < now_sast: raise ...; if start.date() == now_sast.date(): raise *)
ValidateStart(start, now_sast) ==
    IF start < now_sast THEN "PastDate"
    ELSE IF DateOf(start) = DateOf(now_sast) THEN "SameDay"
    ELSE "none"

(* An event: id, window, extendedProperties.private.lead_email, and the    *)
(* lead its summary and description name: the id of the row of "meetings"  *)
(* the details were read from, 0 when they come from a request body or     *)
(* from somebody's own entry.                                              *)
NoEvent == [id |-> 0, start |-> 0, end |-> 0, lead_email |-> "N/A", summary |-> 0]

Failed(error) == [error |-> error, event |-> NoEvent]

(* create_calendar_event(start_time, summary, description, attendees);     *)
(* insertOk says whether events().insert().execute() answers or raises.    *)
create_calendar_event(start_time, summary, attendees, insertOk) ==
    IF get_calendar_service = "ValueError" THEN Failed("CredentialsError")
    ELSE
    LET parsed_start_time == parse(start_time) IN
    IF parsed_start_time.error # "none" THEN Failed("ParserError")
    ELSE
    LET start == InSast(parsed_start_time)
        invalid == ValidateStart(start, now)
        end == start + settings.APPOINTMENT_DURATION_MINUTES
        lead_email == IF attendees # <<>> THEN attendees[1] ELSE "N/A"
    IN  IF invalid # "none" THEN Failed(invalid)
        ELSE IF ~insertOk THEN Failed("HttpError")
        ELSE [error |-> "none",
              event |-> [id |-> eventSeq + 1, start |-> start, end |-> end,
                         lead_email |-> lead_email, summary |-> summary]]

(* The exceptions of create_calendar_event that are ValueErrors. *)
ValueErrors == {"CredentialsError", "ParserError", "PastDate", "SameDay"}

----------------------------------------------------------------------------
(* api/server.py: book_voice_appointment (POST /book-appointment)          *)

Emails == {"lead@example.com"}
NoPhone == ""
Phones == {NoPhone, "+27821234567"}

(* VoiceBookingRequest, the fields the handler branches on *)
VoiceBookingRequests ==
    [email : Emails, start_time : StartInputs, client_number : Phones]

(* What the collaborators do during one request: which call fails (the    *)
(* calendar insert, the insert into "meetings", the insert into            *)
(* "call_history", the SMTP session, the Twilio call, or none).  The first *)
(* three raise; the senders of email_sender.py and notifications.py catch  *)
(* their own errors and return False.                                      *)
Environments ==
    [raises : {"nothing", "calendar", "meetings", "call_history",
               "smtp", "twilio"}]

(* No request is being answered. *)
NoResp ==
    [op |-> "none", status |-> 0, error |-> "none", start_time |-> GarbageStart,
     meeting_id |-> 0]

Response(op, status, error, start_time) ==
    [op |-> op, status |-> status, error |-> error, start_time |-> start_time,
     meeting_id |-> 0]

(* send_direct_booking_confirmation: True and the message accepted, or     *)
(* False.                                                                  *)
send_direct_booking_confirmation(recipient_email, env) ==
    IF env.raises = "smtp" THEN <<>>
    ELSE <<[kind |-> "direct_booking_confirmation", to |-> recipient_email,
            ref |-> 0]>>

(* send_sms_confirmation: True and the message accepted, or False. *)
send_sms_confirmation(recipient_phone_number, env) ==
    IF env.raises = "twilio" THEN <<>>
    ELSE <<[kind |-> "sms_confirmation", to |-> recipient_phone_number,
            ref |-> 0]>>

(* The notifications of steps 6 and 7: the direct confirmation email,      *)
(* then the SMS when the request has a client_number.                      *)
BookingNotifications(request, env) ==
    send_direct_booking_confirmation(request.email, env)
    \o (IF request.client_number # NoPhone
        THEN send_sms_confirmation(request.client_number, env)
        ELSE <<>>)

(* A failed dispatch raising out of the handler: not the code's. *)
AfterNotificationsFatal(env) ==
    IF env.raises \in {"smtp", "twilio"} THEN "HTTPException"
    ELSE "success_message"

(* Steps 6 to 8: each sender is called inside try/except, a failure is     *)
(* logged, and the success message is returned.                            *)
AfterNotifications(env) == "success_message"

BookAppointment(request, env) ==
    LET created == create_calendar_event(request.start_time, 0,
                                         <<request.email>>,
                                         env.raises # "calendar")
        created_event == created.event
        meeting_data ==
            [id |-> Cardinality(meetings) + 1,
             email |-> request.email,
             start_time |-> request.start_time,
             client_number |-> request.client_number,
             google_calendar_event_id |-> created_event.id,
             status |-> "confirmed",
             reminder_24h_sent |-> FALSE,
             reminder_morning_sent |-> FALSE,
             reminder_1h_sent |-> FALSE]
        op == "book_appointment"
    IN
    /\ resp = NoResp
    /\ created.error = "none" =>
          (eventSeq < MaxMeetings /\ Cardinality(meetings) < MaxMeetings)
    /\ IF created.error \in ValueErrors
       THEN (* except ValueError: 400 *)
            /\ resp' = Response(op, 400, created.error, request.start_time)
            /\ UNCHANGED <<calendar, eventSeq, meetings, call_history, outbox>>
       ELSE IF created.error # "none"
       THEN (* except Exception: 500 *)
            /\ resp' = Response(op, 500, created.error, request.start_time)
            /\ UNCHANGED <<calendar, eventSeq, meetings, call_history, outbox>>
       ELSE
            /\ calendar' = calendar \cup {created_event}
            /\ eventSeq' = eventSeq + 1
            /\ IF env.raises = "meetings"
               THEN /\ resp' = Response(op, 500, "APIError", request.start_time)
                    /\ UNCHANGED <<meetings, call_history, outbox>>
               ELSE
               /\ meetings' = meetings \cup {meeting_data}
               /\ IF env.raises = "call_history"
                  THEN /\ resp' = Response(op, 500, "APIError", request.start_time)
                       /\ UNCHANGED <<call_history, outbox>>
                  ELSE /\ call_history' = call_history + 1
                       /\ outbox' = outbox \o BookingNotifications(request, env)
                       /\ resp' = IF AfterNotifications(env) = "success_message"
                                  THEN Response(op, 200, "none",
                                                request.start_time)
                                  ELSE Response(op, 500, "HTTPException",
                                                request.start_time)
    /\ UNCHANGED <<swept, settings, credentials, now, avail, inflight, chatVars>>

----------------------------------------------------------------------------
(* tools/custom_tools.py: book_zappies_onboarding_call_from_json           *)

(* BookOnboardingCallArgs: valid says whether the JSON string loads and    *)
(* passes the schema.                                                      *)
OnboardingArgs ==
    [valid : {TRUE}, email : Emails, start_time : StartInputs,
     monthly_budget : {8000}]
    \cup [valid : {TRUE, FALSE}, email : Emails, start_time : {GarbageStart},
          monthly_budget : {5000, 8000}]

(* send_confirmation_email: the email with the link                        *)
(* {API_BASE_URL}/confirm-meeting/{meeting_id}; True and the message       *)
(* accepted, or False.                                                     *)
send_confirmation_email(recipient_email, meeting_id, env) ==
    IF env.raises = "smtp" THEN <<>>
    ELSE <<[kind |-> "confirmation_email", to |-> recipient_email,
            ref |-> meeting_id]>>

(* The name conversation_id is neither a parameter, a local nor a global   *)
(* of custom_tools.py: reading it raises NameError.                        *)
conversation_id_bound == FALSE

(* The row with the event of a confirmed meeting: not the code's. *)
RowWithEvent(args) ==
    [id |-> Cardinality(meetings) + 1,
     email |-> args.email,
     start_time |-> args.start_time,
     client_number |-> NoPhone,
     google_calendar_event_id |-> eventSeq + 1,
     status |-> "confirmed",
     reminder_24h_sent |-> FALSE,
     reminder_morning_sent |-> FALSE,
     reminder_1h_sent |-> FALSE]

(* The row inserted into "meetings": google_calendar_event_id omitted      *)
(* (0 here), no client_number, status "pending_confirmation".  The         *)
(* reminder_*_sent columns are not part of any insert: a new row holds     *)
(* false in them, as the selects of tools/scheduler.py expect.             *)
PendingRow(args) ==
    [id |-> Cardinality(meetings) + 1,
     email |-> args.email,
     start_time |-> args.start_time,
     client_number |-> NoPhone,
     google_calendar_event_id |-> 0,
     status |-> "pending_confirmation",
     reminder_24h_sent |-> FALSE,
     reminder_morning_sent |-> FALSE,
     reminder_1h_sent |-> FALSE]

BookOnboarding(args, env) ==
    LET op == "book_onboarding"
        row == PendingRow(args)
        inserts == args.valid /\ args.monthly_budget >= MINIMUM_BUDGET
                   /\ env.raises # "meetings"
    IN
    /\ resp = NoResp
    /\ inserts => Cardinality(meetings) < MaxMeetings
    /\ IF ~args.valid
       THEN (* json.JSONDecodeError, ValidationError *)
            /\ resp' = Response(op, 0, "InvalidDetails", args.start_time)
            /\ UNCHANGED <<meetings, outbox>>
       ELSE IF args.monthly_budget < MINIMUM_BUDGET
       THEN /\ resp' = Response(op, 0, "Disqualified", args.start_time)
            /\ UNCHANGED <<meetings, outbox>>
       ELSE IF env.raises = "meetings"
       THEN (* the insert raises: "I'm sorry, I cannot book that appointment." *)
            /\ resp' = Response(op, 0, "CannotBook", args.start_time)
            /\ UNCHANGED <<meetings, outbox>>
       ELSE /\ meetings' = meetings \cup {row}
            /\ IF ~conversation_id_bound
               THEN (* NameError in the inner try, NameError again in its   *)
                    (* handler's log line, caught by the outer except.      *)
                    /\ resp' = Response(op, 0, "CannotBook", args.start_time)
                    /\ UNCHANGED outbox
               ELSE /\ outbox' = outbox \o
                          send_confirmation_email(args.email, row.id, env)
                    /\ resp' = Response(op, 0, "none", args.start_time)
    /\ UNCHANGED <<swept, settings, credentials, now, calendar, eventSeq,
                   call_history, avail, inflight, chatVars>>

----------------------------------------------------------------------------
(* api/server.py: confirm_meeting (GET /confirm-meeting/{meeting_id})      *)

(* The connections a confirmation link is opened on. *)
Clients == {"c1", "c2"}

MeetingIds == 1 .. MaxMeetings

(* What the collaborators do during one confirmation: which call fails     *)
(* (the select on "meetings", the calendar insert, the update of           *)
(* "meetings", the Twilio call, or none).                                  *)
ConfirmEnvironments ==
    [raises : {"nothing", "select", "calendar", "update", "twilio"}]

(* The HTML page returned, always with status 200: "none" is the           *)
(* "Thank You!" page, the others are named after their heading.            *)
HtmlPage(page, meeting_id, start_time) ==
    [op |-> "confirm_meeting", status |-> 200, error |-> page,
     start_time |-> start_time, meeting_id |-> meeting_id]

(* The check of the status left out: not the code's. *)
never_confirmed(meeting_details) == FALSE

(* if meeting_details['status'] == 'confirmed' *)
already_confirmed(meeting_details) == meeting_details.status = "confirmed"

(* The server accepts a request for /confirm-meeting/{meeting_id}. *)
SendConfirm(c, meeting_id) ==
    /\ resp = NoResp
    /\ inflight[c] = 0
    /\ inflight' = [inflight EXCEPT ![c] = meeting_id]
    /\ UNCHANGED <<swept, settings, credentials, now, calendar, eventSeq, meetings,
                   call_history, outbox, avail, resp, chatVars>>

(* The event loop runs the handler of an accepted request.  The coroutine  *)
(* awaits nothing, so it runs from its first line to its return.           *)
ConfirmMeeting(c, env) ==
    LET meeting_id == inflight[c]
        rows == {m \in meetings : m.id = meeting_id}
        meeting_details == CHOOSE m \in rows : TRUE
        created == create_calendar_event(meeting_details.start_time,
                                         meeting_id, <<>>,
                                         env.raises # "calendar")
        created_event == created.event
        confirmed == [meeting_details EXCEPT
                         !.status = "confirmed",
                         !.google_calendar_event_id = created_event.id]
    IN
    /\ resp = NoResp
    /\ meeting_id # 0
    /\ inflight' = [inflight EXCEPT ![c] = 0]
    /\ IF env.raises = "select"
       THEN (* except APIError, not the 0-rows one *)
            /\ resp' = HtmlPage("DatabaseError", meeting_id, GarbageStart)
            /\ UNCHANGED <<calendar, eventSeq, meetings, outbox>>
       ELSE IF rows = {}
       THEN (* .single() finds 0 rows *)
            /\ resp' = HtmlPage("NotFound", meeting_id, GarbageStart)
            /\ UNCHANGED <<calendar, eventSeq, meetings, outbox>>
       ELSE IF already_confirmed(meeting_details)
       THEN /\ resp' = HtmlPage("AlreadyConfirmed", meeting_id,
                                meeting_details.start_time)
            /\ UNCHANGED <<calendar, eventSeq, meetings, outbox>>
       ELSE IF created.error # "none"
       THEN (* except Exception: ValueError or the calendar's error *)
            /\ resp' = HtmlPage("Error", meeting_id, meeting_details.start_time)
            /\ UNCHANGED <<calendar, eventSeq, meetings, outbox>>
       ELSE /\ eventSeq < MaxCreated
            /\ calendar' = calendar \cup {created_event}
            /\ eventSeq' = eventSeq + 1
            /\ IF env.raises = "update"
               THEN /\ resp' = HtmlPage("DatabaseError", meeting_id,
                                        meeting_details.start_time)
                    /\ UNCHANGED <<meetings, outbox>>
               ELSE /\ meetings' = (meetings \ {meeting_details}) \cup {confirmed}
                    /\ outbox' = outbox \o
                          (IF meeting_details.client_number # NoPhone
                           THEN send_sms_confirmation(
                                    meeting_details.client_number, env)
                           ELSE <<>>)
                    /\ resp' = HtmlPage("none", meeting_id,
                                        meeting_details.start_time)
    /\ UNCHANGED <<swept, settings, credentials, now, call_history, avail, chatVars>>

----------------------------------------------------------------------------
(* api/server.py: chat_with_agent (POST /chat)                             *)

ChatRequests == {"r1", "r2", "r3"}
Conversations == {"A", "B"}

(* Where a request is: not sent ("idle"), at "async with lock" ("lock"),   *)
(* holding the lock at "async with agent_semaphore" ("semaphore"), or      *)
(* holding both at "await agent_executor.ainvoke" ("agent").               *)
Idle == [at |-> "idle", conversation_id |-> "-"]

At(place, conversation_id) == [at |-> place, conversation_id |-> conversation_id]

(* Inside "async with lock": from the read of the status to the return. *)
InsideLock(r) == chat_pc[r].at \in {"semaphore", "agent"}

ChatAtRest ==
    /\ chat_pc = [r \in ChatRequests |-> Idle]
    /\ conversation_locks = [id \in Conversations |-> "free"]
    /\ agent_semaphore = settings.CONCURRENCY_LIMIT
    /\ conversation_history = [id \in Conversations |-> "none"]

(* A lock that is taken for every conversation: not the code's. *)
never_locked(conversation_id) == FALSE

(* asyncio.Lock.locked() of conversation_locks[conversation_id]; the       *)
(* defaultdict makes the lock, unlocked, at the first request.             *)
locked(conversation_id) == conversation_locks[conversation_id] # "free"

(* What the store does during the status check: the select raises, the     *)
(* upsert of add_messages raises, or neither.                              *)
ChatEnvironments == [raises : {"nothing", "select", "upsert"}]

(* What the agent run comes to: an answer (the memory saves the turn with  *)
(* status "active"), the request_human_handover tool (status "handover"),  *)
(* or an exception (500).                                                  *)
AgentOutcomes == {"answer", "handover", "error"}

ChatArrive(r, conversation_id) ==
    /\ chat_pc[r] = Idle
    /\ chat_pc' = [chat_pc EXCEPT ![r] = At("lock", conversation_id)]
    /\ UNCHANGED <<swept, settings, credentials, now, calendar, eventSeq, meetings,
                   call_history, outbox, avail, resp, inflight,
                   conversation_locks, agent_semaphore, conversation_history>>

(* The lock is acquired and the status read.  In handover the message is   *)
(* stored by add_messages (an upsert with status "active") and the handler *)
(* returns, releasing the lock; otherwise, also when the check raised, it  *)
(* goes on to the semaphore.                                               *)
ChatEnter(r, env) ==
    LET conversation_id == chat_pc[r].conversation_id IN
    /\ chat_pc[r].at = "lock"
    /\ ~locked(conversation_id)
    /\ IF env.raises # "select"
          /\ conversation_history[conversation_id] = "handover"
          /\ env.raises # "upsert"
       THEN /\ conversation_history' =
                  [conversation_history EXCEPT ![conversation_id] = "active"]
            /\ chat_pc' = [chat_pc EXCEPT ![r] = Idle]
            /\ UNCHANGED conversation_locks
       ELSE /\ conversation_locks' =
                  [conversation_locks EXCEPT ![conversation_id] = r]
            /\ chat_pc' = [chat_pc EXCEPT ![r] = At("semaphore", conversation_id)]
            /\ UNCHANGED conversation_history
    /\ UNCHANGED <<swept, settings, credentials, now, calendar, eventSeq, meetings,
                   call_history, outbox, avail, resp, inflight, agent_semaphore>>

(* A permit of the semaphore is taken and the agent started. *)
ChatStartAgent(r) ==
    /\ chat_pc[r].at = "semaphore"
    /\ agent_semaphore > 0
    /\ agent_semaphore' = agent_semaphore - 1
    /\ chat_pc' = [chat_pc EXCEPT ![r] = At("agent", chat_pc[r].conversation_id)]
    /\ UNCHANGED <<swept, settings, credentials, now, calendar, eventSeq, meetings,
                   call_history, outbox, avail, resp, inflight,
                   conversation_locks, conversation_history>>

(* The agent run ends; the handler returns or raises HTTPException(500),   *)
(* and both context managers release.                                      *)
ChatAgentDone(r, outcome) ==
    LET conversation_id == chat_pc[r].conversation_id IN
    /\ chat_pc[r].at = "agent"
    /\ conversation_history' =
          [conversation_history EXCEPT ![conversation_id] =
              IF outcome = "answer" THEN "active"
              ELSE IF outcome = "handover" THEN "handover"
              ELSE @]
    /\ agent_semaphore' = agent_semaphore + 1
    /\ conversation_locks' = [conversation_locks EXCEPT ![conversation_id] = "free"]
    /\ chat_pc' = [chat_pc EXCEPT ![r] = Idle]
    /\ UNCHANGED <<swept, settings, credentials, now, calendar, eventSeq, meetings,
                   call_history, outbox, avail, resp, inflight>>

----------------------------------------------------------------------------
(* tools/google_calendar.py: find_event_by_details, update_calendar_event, *)
(* delete_calendar_event; tools/custom_tools.py: cancel_appointment_from_  *)
(* json, reschedule_appointment_from_json                                  *)

(* The start_time strings the agent passes: nine and ten o'clock on day 1, *)
(* half past nine on day 1, and one that does not parse.                   *)
HalfPastNine == [fmt |-> "naive", minute |-> DayMinutes + 9 * HourMinutes + 30]

ManageStarts ==
    {[fmt |-> "naive", minute |-> DayMinutes + m] : m \in NaiveTods}
    \cup {HalfPastNine, GarbageStart}

(* CancelAppointmentArgs and RescheduleAppointmentArgs; valid says whether *)
(* the JSON string loads and passes the schema.                            *)
CancelArgs ==
    [valid : {TRUE}, email : Emails, original_start_time : ManageStarts]
    \cup [valid : {FALSE}, email : Emails, original_start_time : {GarbageStart}]

RescheduleArgs ==
    [valid : {TRUE}, email : Emails,
     original_start_time : ManageStarts \ {GarbageStart},
     new_start_time : ManageStarts]
    \cup [valid : {FALSE}, email : Emails, original_start_time : {GarbageStart},
          new_start_time : {GarbageStart}]

(* What the calendar does during one call: events().list raises, the event *)
(* is removed by its owner after the list so that the next call on it is   *)
(* answered 410 ("gone") or 404 ("not_found"), the call on the event       *)
(* raises another error ("calendar"), or nothing of this.                  *)
ManageEnvironments ==
    [raises : {"nothing", "list", "gone", "not_found", "calendar"}]

(* find_event_by_details: the ids events().list returns for the minute     *)
(* [start_time, start_time + 1 min) and privateExtendedProperty            *)
(* lead_email=email; the caller takes events[0].  The credentials and the  *)
(* parse are outside the try, the list is inside and its error gives None. *)
find_event_by_details(email, original_start_time, listOk) ==
    IF get_calendar_service = "ValueError"
    THEN [error |-> "CredentialsError", ids |-> {}]
    ELSE
    LET parsed == parse(original_start_time) IN
    IF parsed.error # "none" THEN [error |-> "ParserError", ids |-> {}]
    ELSE
    LET start_time == InSast(parsed) IN
    IF ~listOk THEN [error |-> "none", ids |-> {}]
    ELSE [error |-> "none",
          ids |-> {e.id : e \in {x \in events_list(start_time, start_time + 1) :
                                     x.lead_email = email}}]

(* delete_calendar_event: HttpError 410 is logged, any other is re-raised. *)
delete_calendar_event(answer) ==
    IF answer \in {"nothing", "gone"} THEN "returns" ELSE "raises"

(* The answer of a tool function to the agent, with the call it answers:  *)
(* the email and original_start_time of the arguments, the start_time the  *)
(* call is about (the new one of a reschedule), the id of the event it     *)
(* acted on (0 for none) and what the calendar did during the call.        *)
ToolAnswer(op, error, args, start_time, event_id, env) ==
    [op |-> op, status |-> 0, error |-> error, start_time |-> start_time,
     meeting_id |-> 0, email |-> args.email,
     original_start_time |-> args.original_start_time,
     event_id |-> event_id, raises |-> env.raises]

(* events().delete(eventId) removing nothing: not the code's. *)
events_delete_nothing(event_id) == calendar

(* service.events().delete(calendarId, eventId).execute() *)
events_delete(event_id) == {e \in calendar : e.id # event_id}

(* The calendar after its owner removed the event, or as it was. *)
AfterOwner(event_id, env) ==
    IF env.raises \in {"gone", "not_found"}
    THEN events_delete(event_id)
    ELSE calendar

CancelAppointment(args, event_id, env) ==
    LET op == "cancel_appointment"
        found == find_event_by_details(args.email, args.original_start_time,
                                       env.raises # "list")
    IN
    /\ resp = NoResp
    /\ IF ~args.valid
       THEN /\ resp' = ToolAnswer(op, "InvalidDetails", args,
                                  args.original_start_time, 0, env)
            /\ event_id = 0
            /\ UNCHANGED calendar
       ELSE IF found.error # "none"
       THEN (* raised out of the tool function *)
            /\ resp' = ToolAnswer(op, found.error, args,
                                  args.original_start_time, 0, env)
            /\ event_id = 0
            /\ UNCHANGED calendar
       ELSE IF found.ids = {}
       THEN (* "I couldn't find an appointment for ..." *)
            /\ resp' = ToolAnswer(op, "NotFound", args,
                                  args.original_start_time, 0, env)
            /\ event_id = 0
            /\ UNCHANGED calendar
       ELSE /\ event_id \in found.ids
            /\ IF delete_calendar_event(env.raises) = "returns"
               THEN /\ calendar' = events_delete(event_id)
                    /\ resp' = ToolAnswer(op, "none", args,
                                          args.original_start_time, event_id,
                                          env)
               ELSE (* "Sorry, there was an error canceling ..." *)
                    /\ calendar' = AfterOwner(event_id, env)
                    /\ resp' = ToolAnswer(op, "HttpError", args,
                                          args.original_start_time, event_id,
                                          env)
    /\ UNCHANGED <<swept, settings, credentials, now, eventSeq, meetings,
                   call_history, outbox, avail, inflight, chatVars>>

(* update_calendar_event: the event with its window moved to the new       *)
(* start, or the error raised.  The start is neither compared with now nor *)
(* with the other events.                                                  *)
update_calendar_event(event, new_start_time, updateOk) ==
    LET parsed == parse(new_start_time) IN
    IF parsed.error # "none" THEN [error |-> "ParserError", event |-> event]
    ELSE IF ~updateOk THEN [error |-> "HttpError", event |-> event]
    ELSE LET start == InSast(parsed) IN
         [error |-> "none",
          event |-> [event EXCEPT
                        !.start = start,
                        !.end = start + settings.APPOINTMENT_DURATION_MINUTES]]

RescheduleAppointment(args, event_id, env) ==
    LET op == "reschedule_appointment"
        found == find_event_by_details(args.email, args.original_start_time,
                                       env.raises # "list")
        event == CHOOSE e \in calendar : e.id = event_id
        updated == update_calendar_event(event, args.new_start_time,
                                         env.raises = "nothing")
    IN
    /\ resp = NoResp
    /\ IF ~args.valid
       THEN /\ resp' = ToolAnswer(op, "InvalidDetails", args,
                                  args.new_start_time, 0, env)
            /\ event_id = 0
            /\ UNCHANGED calendar
       ELSE IF found.error # "none"
       THEN /\ resp' = ToolAnswer(op, found.error, args,
                                  args.new_start_time, 0, env)
            /\ event_id = 0
            /\ UNCHANGED calendar
       ELSE IF found.ids = {}
       THEN /\ resp' = ToolAnswer(op, "NotFound", args,
                                  args.new_start_time, 0, env)
            /\ event_id = 0
            /\ UNCHANGED calendar
       ELSE /\ event_id \in found.ids
            /\ IF updated.error = "none"
               THEN /\ calendar' = (calendar \ {event}) \cup {updated.event}
                    /\ resp' = ToolAnswer(op, "none", args,
                                          args.new_start_time, event_id, env)
               ELSE (* "Sorry, there was an error rescheduling ..." *)
                    /\ calendar' = AfterOwner(event_id, env)
                    /\ resp' = ToolAnswer(op, updated.error, args,
                                          args.new_start_time, event_id, env)
    /\ UNCHANGED <<swept, settings, credentials, now, eventSeq, meetings,
                   call_history, outbox, avail, inflight, chatVars>>

----------------------------------------------------------------------------
(* tools/scheduler.py: send_meeting_reminders                              *)

(* The job run once an hour: not the code's. *)
SweepEveryHour == HourMinutes

SweepInterval == 30          \* "to run on a 30-min job interval"

(* The thresholds in the order of the job. *)
Thresholds == <<"24h", "morning", "1h">>

(* The column reminder_<threshold>_sent of a row. *)
reminder_sent(meeting, threshold) ==
    CASE threshold = "24h" -> meeting.reminder_24h_sent
      [] threshold = "morning" -> meeting.reminder_morning_sent
      [] threshold = "1h" -> meeting.reminder_1h_sent

(* The update writing all three columns, the others as False: not the      *)
(* code's.                                                                 *)
with_only_reminder_sent(meeting, threshold) ==
    [meeting EXCEPT !.reminder_24h_sent = (threshold = "24h"),
                    !.reminder_morning_sent = (threshold = "morning"),
                    !.reminder_1h_sent = (threshold = "1h")]

(* update({"reminder_<threshold>_sent": True}) *)
with_reminder_sent(meeting, threshold) ==
    CASE threshold = "24h" -> [meeting EXCEPT !.reminder_24h_sent = TRUE]
      [] threshold = "morning" -> [meeting EXCEPT !.reminder_morning_sent = TRUE]
      [] threshold = "1h" -> [meeting EXCEPT !.reminder_1h_sent = TRUE]

(* The instant the column start_time holds. *)
start_time_of(meeting) ==
    IF meeting.start_time.fmt = "utc"
    THEN meeting.start_time.minute + UtcOffsetMinutes
    ELSE meeting.start_time.minute

(* The morning-of pass runs: 8 <= now_sast.hour < 9. *)
morning_hour(now_sast) ==
    LET hour == (now_sast % DayMinutes) \div HourMinutes IN 8 <= hour /\ hour < 9

(* The last minute of the day after: not the code's. *)
end_of_next_day(now_sast) == ReplaceHour(now_sast, 23) + 59 + DayMinutes

(* end_of_day = now_sast.replace(hour=23, minute=59, second=59) *)
end_of_day(now_sast) == ReplaceHour(now_sast, 23) + 59

(* The filters with lte where the code has lt: not the code's. *)
in_window_closed(threshold, now_sast, start_time) ==
    CASE threshold = "24h" ->
            /\ start_time >= now_sast + 24 * HourMinutes
            /\ start_time <= now_sast + 25 * HourMinutes
      [] threshold = "morning" ->
            /\ start_time >= ReplaceHour(now_sast, 0)
            /\ start_time <= end_of_day(now_sast)
      [] threshold = "1h" ->
            /\ start_time >= now_sast + HourMinutes
            /\ start_time <= now_sast + 90

(* The gte / lt / lte filters on start_time of the three selects. *)
in_window(threshold, now_sast, start_time) ==
    CASE threshold = "24h" ->
            /\ start_time >= now_sast + 24 * HourMinutes
            /\ start_time < now_sast + 25 * HourMinutes
      [] threshold = "morning" ->
            /\ start_time >= ReplaceHour(now_sast, 0)
            /\ start_time <= end_of_day(now_sast)
      [] threshold = "1h" ->
            /\ start_time >= now_sast + HourMinutes
            /\ start_time < now_sast + 90

(* The select without the filter on the flag: not the code's. *)
select_whatever_the_flag(rows, threshold) ==
    {m \in rows :
        /\ m.status = "confirmed"
        /\ m.start_time.fmt # "garbage"
        /\ in_window(threshold, now, start_time_of(m))}

(* select("*").eq("status", "confirmed").eq("reminder_<threshold>_sent",   *)
(* False).gte("start_time", ...).lt("start_time", ...)                     *)
select_meetings(rows, threshold) ==
    {m \in rows :
        /\ m.status = "confirmed"
        /\ ~reminder_sent(m, threshold)
        /\ m.start_time.fmt # "garbage"
        /\ in_window(threshold, now, start_time_of(m))}

(* The reminder SMS, in the outbox when Twilio accepted it. *)
ReminderKind(reminder_type) ==
    CASE reminder_type = "24h" -> "reminder_24h"
      [] reminder_type = "morning" -> "reminder_morning"
      [] reminder_type = "1h" -> "reminder_1h"

(* tools.notifications.send_sms_reminder: True and the message accepted,   *)
(* or False; like send_sms_confirmation it raises nothing.                 *)
send_sms_reminder(recipient_phone_number, meeting_id, reminder_type, accepted) ==
    IF accepted
    THEN <<[kind |-> ReminderKind(reminder_type), to |-> recipient_phone_number,
            ref |-> meeting_id]>>
    ELSE <<>>

(* The flag marked whatever the dispatch returned: not the code's. *)
marks_always(success) == TRUE

(* if success: update({"reminder_<threshold>_sent": True}) *)
marks_sent(success) == success

(* The row without client_number left unmarked: not the code's. *)
skips_no_number == FALSE

(* else: update({"reminder_<threshold>_sent": True}), "Mark as sent to     *)
(* avoid re-checking"                                                      *)
marks_no_number == TRUE

(* The ids of the rows a job meets: two bookings. *)
SweptIds == {1, 2}

(* The orders in which a select returns its rows (none is asked for). *)
Orders == {<<1, 2>>, <<2, 1>>}

(* What the collaborators do during one run of the job: nothing, the       *)
(* selects raise, Twilio does not accept the SMS for booking "on", or the  *)
(* update of the row of booking "on" raises.                               *)
SweepEnvironments ==
    [raises : {"nothing", "select"}, on : {0}, order : Orders]
    \cup [raises : {"twilio", "update"}, on : SweptIds, order : Orders]

(* No job has run. *)
NotSwept ==
    [ran |-> FALSE, at |-> 0, selected |-> {}, attempted |-> {},
     delivered |-> {}, marked |-> {}, raised |-> {}, aborted |-> FALSE]

(* The job at a point of its run: the table, the outbox, the               *)
(* <<id, threshold>> pairs selected, handed to send_sms_reminder, accepted *)
(* by it, and marked sent, the pairs whose update raised, and whether an   *)
(* exception has left the try.                                             *)
Running(rows, sent, log) ==
    [meetings |-> rows, outbox |-> sent, selected |-> log.selected,
     attempted |-> log.attempted, delivered |-> log.delivered,
     marked |-> log.marked, raised |-> log.raised, aborted |-> log.aborted]

(* The body of "for meeting in resp.data" for one row of the select. *)
for_meeting(meeting, threshold, job, env) ==
    LET pair == <<meeting.id, threshold>>
        has_number == meeting.client_number # NoPhone
        success == has_number
                   /\ ~(env.raises = "twilio" /\ env.on = meeting.id)
        sms == IF has_number
               THEN send_sms_reminder(meeting.client_number, meeting.id,
                                      threshold, success)
               ELSE <<>>
        updates == IF has_number THEN marks_sent(success) ELSE marks_no_number
        raised == updates /\ env.raises = "update" /\ env.on = meeting.id
        stored == updates /\ ~raised
    IN  [meetings |->
            IF stored
            THEN {IF m.id = meeting.id THEN with_reminder_sent(m, threshold)
                  ELSE m : m \in job.meetings}
            ELSE job.meetings,
         outbox |-> job.outbox \o sms,
         selected |-> job.selected,
         attempted |-> IF has_number THEN job.attempted \cup {pair}
                       ELSE job.attempted,
         delivered |-> IF success THEN job.delivered \cup {pair}
                       ELSE job.delivered,
         marked |-> IF stored THEN job.marked \cup {pair} ELSE job.marked,
         raised |-> IF raised THEN job.raised \cup {pair} ELSE job.raised,
         aborted |-> raised]

(* The for loop over resp.data, from its i-th row on; an exception ends it. *)
RECURSIVE for_meetings(_, _, _, _, _)
for_meetings(data, i, threshold, job, env) ==
    IF job.aborted \/ i > Len(env.order) THEN job
    ELSE LET found == {m \in data : m.id = env.order[i]} IN
         IF found = {} THEN for_meetings(data, i + 1, threshold, job, env)
         ELSE for_meetings(data, i + 1, threshold,
                           for_meeting(CHOOSE m \in found : TRUE, threshold,
                                       job, env),
                           env)

(* One of the three passes: the select and its loop. *)
reminders_pass(threshold, job, env) ==
    IF job.aborted THEN job
    ELSE IF threshold = "morning" /\ ~morning_hour(now) THEN job
    ELSE IF env.raises = "select" THEN [job EXCEPT !.aborted = TRUE]
    ELSE LET data == select_meetings(job.meetings, threshold) IN
         for_meetings(data, 1, threshold,
                      [job EXCEPT !.selected =
                          @ \cup {<<m.id, threshold>> : m \in data}],
                      env)

(* send_meeting_reminders: the three passes inside one try. *)
send_meeting_reminders(env) ==
    reminders_pass(Thresholds[3],
        reminders_pass(Thresholds[2],
            reminders_pass(Thresholds[1], Running(meetings, outbox, NotSwept),
                           env),
            env),
        env)

(* The scheduler runs the job. *)
Sweep(env) ==
    LET job == send_meeting_reminders(env) IN
    /\ meetings' = job.meetings
    /\ outbox' = job.outbox
    /\ swept' = [ran |-> TRUE, at |-> now, selected |-> job.selected,
                 attempted |-> job.attempted, delivered |-> job.delivered,
                 marked |-> job.marked, raised |-> job.raised,
                 aborted |-> job.aborted]
    /\ UNCHANGED <<settings, credentials, now, calendar, eventSeq,
                   call_history, avail, resp, inflight, chatVars>>

(* The job has run at the present time. *)
SweptNow == swept.ran /\ swept.at = now

(* The interval of the scheduler passes, after the job has run; the last   *)
(* run is at noon of the last day.                                         *)
NextInterval ==
    /\ SweptNow
    /\ now + SweepInterval <= MaxDay * DayMinutes + 12 * HourMinutes
    /\ now' = now + SweepInterval
    /\ UNCHANGED <<settings, credentials, calendar, eventSeq, meetings,
                   call_history, outbox, avail, resp, inflight, chatVars, swept>>

----------------------------------------------------------------------------
(* The clock                                                               *)

ClockStep == 12 * HourMinutes

AdvanceClock ==
    /\ resp = NoResp
    /\ now + ClockStep < (MaxDay + 1) * DayMinutes
    /\ now' = now + ClockStep
    /\ UNCHANGED <<swept, settings, credentials, calendar, eventSeq, meetings,
                   call_history, outbox, avail, resp, inflight, chatVars>>

(* The handler returns: the response leaves the system, and the next       *)
(* request is handled after it.                                            *)
Respond ==
    /\ resp # NoResp
    /\ resp' = NoResp
    /\ UNCHANGED <<swept, settings, credentials, now, calendar, eventSeq, meetings,
                   call_history, outbox, avail, inflight, chatVars>>


----------------------------------------------------------------------------
(* The states before the first request                                     *)

Configs ==
    [BUSINESS_HOURS_START : {9, 10},
     BUSINESS_HOURS_END : {12, 17},
     APPOINTMENT_DURATION_MINUTES : {30, 60, 90},
     CONCURRENCY_LIMIT : {2}]

(* The deployment the messages of the code describe ("1-hour slots"). *)
DeployedConfig ==
    [BUSINESS_HOURS_START |-> 9, BUSINESS_HOURS_END |-> 17,
     APPOINTMENT_DURATION_MINUTES |-> 60, CONCURRENCY_LIMIT |-> 2]

CredentialStates == {"valid", "unset"}

(* Events somebody put on the calendar by hand: <<start, end>>. *)
EventDays == {0, 1}
EventTods == {8 * HourMinutes + 30, 9 * HourMinutes, 10 * HourMinutes,
              11 * HourMinutes + 30, 13 * HourMinutes}
EventLengths == {30, 60}

IntervalPool ==
    {<<d * DayMinutes + m, d * DayMinutes + m + l>> :
        d \in EventDays, m \in EventTods, l \in EventLengths}

Before(i, j) == i[1] < j[1] \/ (i[1] = j[1] /\ i[2] < j[2])

Rank(i, S) == Cardinality({j \in S : Before(j, i)}) + 1

ManualEvents(S) ==
    {[id |-> Rank(i, S), start |-> i[1], end |-> i[2], lead_email |-> "N/A",
      summary |-> 0] : i \in S}

InitialCalendars ==
    {ManualEvents(S) : S \in {T \in SUBSET IntervalPool : Cardinality(T) <= MaxEvents}}

NoAvail ==
    [called |-> FALSE, date |-> [fmt |-> "garbage", day |-> 0, tod |-> 0],
     listOk |-> TRUE, outcome |-> "none", slots |-> <<>>]


InitSlots ==
    /\ settings \in Configs
    /\ credentials \in CredentialStates
    /\ now = 9 * HourMinutes
    /\ calendar \in InitialCalendars
    /\ eventSeq = Cardinality(calendar)
    /\ meetings = {}
    /\ call_history = 0
    /\ outbox = <<>>
    /\ avail = NoAvail
    /\ resp = NoResp
    /\ inflight = [c \in Clients |-> 0]
    /\ ChatAtRest
    /\ swept = NotSwept

(* A caller asks for the slots of a date.  The call reads the calendar and *)
(* changes nothing, so one call is made from each state before it.         *)
GetAvailableSlots(date, listOk) ==
    /\ ~avail.called
    /\ LET r == get_available_slots(date, listOk) IN
       avail' = [called |-> TRUE, date |-> date, listOk |-> listOk,
                 outcome |-> r.outcome, slots |-> r.slots]
    /\ UNCHANGED <<swept, settings, credentials, now, calendar, eventSeq, meetings,
                   call_history, outbox, resp, inflight, chatVars>>

NextSlots ==
    \E date \in DateInputs, listOk \in BOOLEAN : GetAvailableSlots(date, listOk)

SpecSlots == InitSlots /\ [][NextSlots]_vars

----------------------------------------------------------------------------
(* api/server.py: get_voice_availability (POST /get-availability)          *)

(* datetime.isoformat() of a slot, an aware datetime of the fixed          *)
(* timezone: the string carries the offset, so it reads as the instant     *)
(* UtcOffsetMinutes earlier on the UTC clock.                              *)
isoformat(t) == [fmt |-> "utc", minute |-> t - UtcOffsetMinutes]

(* The answer of the endpoint: 400 for a date before today, 500 when       *)
(* fromisoformat or get_available_slots raises, "unavailable" for an empty *)
(* list, else the slots as they were returned.                             *)
get_voice_availability(date, listOk) ==
    LET requested == fromisoformat(date) IN
    IF requested.error # "none" THEN Raised("HTTPException")
    ELSE IF DateOf(requested.minute) < DateOf(now)
    THEN [outcome |-> "past_date", slots |-> <<>>]
    ELSE
    LET got == get_available_slots(date, listOk) IN
    IF got.outcome # "returned" THEN Raised("HTTPException")
    ELSE IF got.slots = <<>> THEN [outcome |-> "unavailable", slots |-> <<>>]
    ELSE [outcome |-> "available_slots_found", slots |-> got.slots]

GetVoiceAvailability(date, listOk) ==
    /\ ~avail.called
    /\ LET r == get_voice_availability(date, listOk) IN
       avail' = [called |-> TRUE, date |-> date, listOk |-> listOk,
                 outcome |-> r.outcome, slots |-> r.slots]
    /\ UNCHANGED <<swept, settings, credentials, now, calendar, eventSeq, meetings,
                   call_history, outbox, resp, inflight, chatVars>>

(* The voice agent asks in the morning or at noon of day 0 or day 1. *)
AskingTimes ==
    {d * DayMinutes + h * HourMinutes : d \in {0, 1}, h \in {9, 12}}

InitVoiceSlots ==
    /\ settings = DeployedConfig
    /\ credentials \in CredentialStates
    /\ now \in AskingTimes
    /\ calendar \in InitialCalendars
    /\ eventSeq = Cardinality(calendar)
    /\ meetings = {}
    /\ call_history = 0
    /\ outbox = <<>>
    /\ avail = NoAvail
    /\ resp = NoResp
    /\ inflight = [c \in Clients |-> 0]
    /\ ChatAtRest
    /\ swept = NotSwept

NextVoiceSlots ==
    \E date \in DateInputs, listOk \in BOOLEAN : GetVoiceAvailability(date, listOk)

SpecVoiceSlots == InitVoiceSlots /\ [][NextVoiceSlots]_vars

----------------------------------------------------------------------------
(* The booking system: requests of both entry points, and time passing     *)

Init ==
    /\ settings = DeployedConfig
    /\ credentials \in CredentialStates
    /\ now = 9 * HourMinutes
    /\ calendar = {}
    /\ eventSeq = 0
    /\ meetings = {}
    /\ call_history = 0
    /\ outbox = <<>>
    /\ avail = NoAvail
    /\ resp = NoResp
    /\ inflight = [c \in Clients |-> 0]
    /\ ChatAtRest
    /\ swept = NotSwept

Next ==
    \/ \E request \in VoiceBookingRequests, env \in Environments :
          BookAppointment(request, env)
    \/ \E args \in OnboardingArgs, env \in Environments :
          BookOnboarding(args, env)
    \/ Respond
    \/ AdvanceClock

Spec == Init /\ [][Next]_vars

----------------------------------------------------------------------------
(* Deferred confirmation: the agent's booking tool, the confirmation link  *)
(* opened on several connections, and time passing                         *)

(* The calendar before the first request: empty, or with one event         *)
(* somebody entered by hand, 10:00 to 11:00 on day 1.                      *)
BookedByHand ==
    ManualEvents({<<DayMinutes + 10 * HourMinutes, DayMinutes + 11 * HourMinutes>>})

InitConfirm ==
    /\ settings = DeployedConfig
    /\ credentials \in CredentialStates
    /\ now = 9 * HourMinutes
    /\ calendar \in {{}, BookedByHand}
    /\ eventSeq = Cardinality(calendar)
    /\ meetings = {}
    /\ call_history = 0
    /\ outbox = <<>>
    /\ avail = NoAvail
    /\ resp = NoResp
    /\ inflight = [c \in Clients |-> 0]
    /\ ChatAtRest
    /\ swept = NotSwept

NextConfirm ==
    \/ \E args \in OnboardingArgs, env \in Environments :
          BookOnboarding(args, env)
    \/ \E c \in Clients, meeting_id \in MeetingIds : SendConfirm(c, meeting_id)
    \/ \E c \in Clients, env \in ConfirmEnvironments : ConfirmMeeting(c, env)
    \/ Respond
    \/ AdvanceClock

SpecConfirm == InitConfirm /\ [][NextConfirm]_vars

----------------------------------------------------------------------------
(* The /chat endpoint: requests of several conversations in flight         *)

ChatConfigs ==
    {[DeployedConfig EXCEPT !.CONCURRENCY_LIMIT = n] : n \in {1, 2}}

InitChat ==
    /\ settings \in ChatConfigs
    /\ credentials = "valid"
    /\ now = 9 * HourMinutes
    /\ calendar = {}
    /\ eventSeq = 0
    /\ meetings = {}
    /\ call_history = 0
    /\ outbox = <<>>
    /\ avail = NoAvail
    /\ resp = NoResp
    /\ inflight = [c \in Clients |-> 0]
    /\ ChatAtRest
    /\ swept = NotSwept

NextChat ==
    \/ \E r \in ChatRequests, conversation_id \in Conversations :
          ChatArrive(r, conversation_id)
    \/ \E r \in ChatRequests, env \in ChatEnvironments : ChatEnter(r, env)
    \/ \E r \in ChatRequests : ChatStartAgent(r)
    \/ \E r \in ChatRequests, outcome \in AgentOutcomes : ChatAgentDone(r, outcome)

SpecChat == InitChat /\ [][NextChat]_vars

----------------------------------------------------------------------------
(* Cancelling and rescheduling the bookings of both entry points           *)

(* The ids an event of the calendar can have, and 0 for none. *)
EventIds == 0 .. MaxCreated

WorkingEnvironment == [raises |-> "nothing"]

(* The bookings that are managed: made without a phone number, for nine    *)
(* or ten o'clock on day 1.                                                *)
ManagedRequests ==
    {r \in VoiceBookingRequests :
        r.client_number = NoPhone /\ r.start_time \in ManageStarts}

ManagedArgs == {a \in OnboardingArgs : a.valid /\ a.start_time \in ManageStarts}

NextManage ==
    \/ \E request \in ManagedRequests :
          BookAppointment(request, WorkingEnvironment)
    \/ \E args \in ManagedArgs : BookOnboarding(args, WorkingEnvironment)
    \/ \E meeting_id \in MeetingIds : SendConfirm("c1", meeting_id)
    \/ ConfirmMeeting("c1", WorkingEnvironment)
    \/ \E args \in CancelArgs, event_id \in EventIds, env \in ManageEnvironments :
          CancelAppointment(args, event_id, env)
    \/ \E args \in RescheduleArgs, event_id \in EventIds,
          env \in ManageEnvironments :
          RescheduleAppointment(args, event_id, env)
    \/ Respond

SpecManage == InitConfirm /\ [][NextManage]_vars

----------------------------------------------------------------------------
(* The reminder job over the bookings of a table                           *)

(* The start_times of the bookings: nine and ten o'clock on day 1. *)
SweptStarts == {[fmt |-> "naive", minute |-> DayMinutes + m] : m \in NaiveTods}

(* The rows as the handlers leave them: confirmed by POST /book-appointment *)
(* with or without a phone number, pending or confirmed after the          *)
(* onboarding tool, which stores no phone number.                          *)
SweptRowsAt(id, starts) ==
    {r \in [id : {id}, email : Emails, start_time : starts,
            client_number : Phones,
            google_calendar_event_id : {0, id},
            status : {"confirmed", "pending_confirmation"},
            reminder_24h_sent : {FALSE}, reminder_morning_sent : {FALSE},
            reminder_1h_sent : {FALSE}] :
        /\ (r.status = "confirmed") = (r.google_calendar_event_id = id)
        /\ r.status = "pending_confirmation" => r.client_number = NoPhone}

SweptRows(id) == SweptRowsAt(id, SweptStarts)

(* The tables: empty, row 1, or rows 1 and 2. *)
SweptTables ==
    {{}} \cup {{r} : r \in SweptRows(1)}
         \cup {{r1, r2} : r1 \in SweptRows(1), r2 \in SweptRows(2)}

InitSweep ==
    /\ settings = DeployedConfig
    /\ credentials = "valid"
    /\ now = 8 * HourMinutes
    /\ calendar = {}
    /\ eventSeq = 0
    /\ meetings \in SweptTables
    /\ call_history = 0
    /\ outbox = <<>>
    /\ avail = NoAvail
    /\ resp = NoResp
    /\ inflight = [c \in Clients |-> 0]
    /\ ChatAtRest
    /\ swept = NotSwept

(* The store answers every call of the job; Twilio may refuse an SMS. *)
StoreAnswers(env) == env.raises \in {"nothing", "twilio"}

NextSweep ==
    \/ \E env \in SweepEnvironments : StoreAnswers(env) /\ Sweep(env)
    \/ NextInterval

SpecSweep == InitSweep /\ [][NextSweep]_vars

(* Confirmed bookings that start on day 1 before or during the hour of the *)
(* morning-of pass: at 07:00 and at 08:15.                                 *)
EarlyStarts ==
    {[fmt |-> "naive", minute |-> DayMinutes + m] :
        m \in {7 * HourMinutes, 8 * HourMinutes + 15}}

EarlyRows(id) ==
    {r \in SweptRowsAt(id, EarlyStarts) : r.status = "confirmed"}

EarlyTables ==
    {{r} : r \in EarlyRows(1)}
        \cup {{r1, r2} : r1 \in EarlyRows(1), r2 \in EarlyRows(2)}

InitSweepEarly ==
    /\ settings = DeployedConfig
    /\ credentials = "valid"
    /\ now = 8 * HourMinutes
    /\ calendar = {}
    /\ eventSeq = 0
    /\ meetings \in EarlyTables
    /\ call_history = 0
    /\ outbox = <<>>
    /\ avail = NoAvail
    /\ resp = NoResp
    /\ inflight = [c \in Clients |-> 0]
    /\ ChatAtRest
    /\ swept = NotSwept

(* The bookings were made on day 0 after ten o'clock, less than 24 hours   *)
(* ahead, and it is seven o'clock on day 1.                                *)
InitSweepLate ==
    /\ settings = DeployedConfig
    /\ credentials = "valid"
    /\ now = DayMinutes + 7 * HourMinutes
    /\ calendar = {}
    /\ eventSeq = 0
    /\ meetings \in SweptTables
    /\ call_history = 0
    /\ outbox = <<>>
    /\ avail = NoAvail
    /\ resp = NoResp
    /\ inflight = [c \in Clients |-> 0]
    /\ ChatAtRest
    /\ swept = NotSwept

(* The job with a store that may raise, run once per interval. *)
NextSweepFailing ==
    \/ \E env \in SweepEnvironments : ~SweptNow /\ Sweep(env)
    \/ NextInterval

SpecSweepFailing == InitSweepLate /\ [][NextSweepFailing]_vars

(* The job triggered once every interval from a first run at 08:00, 08:10  *)
(* or 08:20 on day 0, with Twilio accepting every SMS and the store        *)
(* answering.                                                              *)
FirstRuns == {8 * HourMinutes, 8 * HourMinutes + 10, 8 * HourMinutes + 20}

InitSweepOnTime ==
    /\ settings = DeployedConfig
    /\ credentials = "valid"
    /\ now \in FirstRuns
    /\ calendar = {}
    /\ eventSeq = 0
    /\ meetings \in SweptTables
    /\ call_history = 0
    /\ outbox = <<>>
    /\ avail = NoAvail
    /\ resp = NoResp
    /\ inflight = [c \in Clients |-> 0]
    /\ ChatAtRest
    /\ swept = NotSwept

SweepOnTime ==
    \E env \in SweepEnvironments :
       env.raises = "nothing" /\ ~SweptNow /\ Sweep(env)

NextSweepOnTime == SweepOnTime \/ NextInterval

SpecSweepOnTime == InitSweepOnTime /\ [][NextSweepOnTime]_vars

(* The same job, from 08:00 on day 0, over the bookings that start early   *)
(* on day 1.                                                               *)
SpecSweepEarly == InitSweepEarly /\ [][NextSweepOnTime]_vars

----------------------------------------------------------------------------
(* The bookings of a table confirmed, cancelled, rescheduled and reminded  *)

(* The event POST /book-appointment created for a confirmed row. *)
EventOfRow(m) ==
    [id |-> m.google_calendar_event_id,
     start |-> start_time_of(m),
     end |-> start_time_of(m) + DeployedConfig.APPOINTMENT_DURATION_MINUTES,
     lead_email |-> m.email,
     summary |-> 0]

EventsOfTable(rows) == {EventOfRow(m) : m \in {r \in rows : r.status = "confirmed"}}

(* Seven o'clock on day 1; the one booking was made on day 0 after ten     *)
(* o'clock, by POST /book-appointment if it is confirmed.                  *)
InitLife ==
    /\ settings = DeployedConfig
    /\ credentials = "valid"
    /\ now = DayMinutes + 7 * HourMinutes
    /\ meetings \in {{r} : r \in SweptRows(1)}
    /\ calendar = EventsOfTable(meetings)
    /\ eventSeq = Cardinality(meetings)
    /\ call_history = 0
    /\ outbox = <<>>
    /\ avail = NoAvail
    /\ resp = NoResp
    /\ inflight = [c \in Clients |-> 0]
    /\ ChatAtRest
    /\ swept = NotSwept

(* The job and the requests are taken one after the other. *)
NextLife ==
    \/ \E env \in SweepEnvironments :
          resp = NoResp /\ StoreAnswers(env) /\ Sweep(env)
    \/ resp = NoResp /\ NextInterval
    \/ SendConfirm("c1", 1)
    \/ ConfirmMeeting("c1", WorkingEnvironment)
    \/ \E args \in CancelArgs, event_id \in EventIds :
          CancelAppointment(args, event_id, WorkingEnvironment)
    \/ \E args \in RescheduleArgs, event_id \in EventIds :
          RescheduleAppointment(args, event_id, WorkingEnvironment)
    \/ Respond

SpecLife == InitLife /\ [][NextLife]_vars

----------------------------------------------------------------------------
(* Availability: what the claims speak of                                  *)

(* The call just made returned a list for a date it accepted, after the    *)
(* calendar listed its events.                                             *)
SlotsComputed ==
    /\ avail.called
    /\ avail.outcome = "returned"
    /\ avail.listOk
    /\ avail.date.fmt \in {"date", "datetime"}

Duration == settings.APPOINTMENT_DURATION_MINUTES
WindowStart(d) == d * DayMinutes + settings.BUSINESS_HOURS_START * 60
WindowEnd(d) == d * DayMinutes + settings.BUSINESS_HOURS_END * 60

(* start_hour:00 + k * 60 min with the slot ending inside the window *)
Candidates(d) ==
    {t \in {WindowStart(d) + k * 60 : k \in 0 .. 23} : t + Duration <= WindowEnd(d)}

Busy(t, e) == t < e.end /\ t + Duration > e.start

ReturnedSlots == {avail.slots[i] : i \in DOMAIN avail.slots}

(* C1: no slot [t, t+d) a call returns overlaps an event [bs, be) of the   *)
(* calendar, whatever accepted date was asked for.                         *)
C1_NoReturnedSlotIsBusy ==
    (avail.called /\ avail.outcome = "returned") =>
        \A t \in ReturnedSlots : \A e \in calendar : ~Busy(t, e)

(* C2: the slots returned are exactly the candidates start_hour:00 + k*60  *)
(* that end by end_hour:00 and overlap no event; with 09:00-17:00, 60      *)
(* minutes and [13:00,14:00) busy these are 09,10,11,12,14,15,16.          *)
C2_ExactlyTheFreeCandidates ==
    SlotsComputed =>
        ReturnedSlots =
            {t \in Candidates(avail.date.day) : \A e \in calendar : ~Busy(t, e)}

(* C3: a candidate that only touches events (it starts where one ends, or  *)
(* ends where one starts) and overlaps none is returned.                   *)
Touches(t, e) == e.end = t \/ e.start = t + Duration

C3_TouchingSlotIsReturned ==
    SlotsComputed =>
        \A t \in Candidates(avail.date.day) :
            ((\E e \in calendar : Touches(t, e))
                /\ (\A e \in calendar : ~Busy(t, e)))
            => t \in ReturnedSlots

C3_Witness ==
    /\ SlotsComputed
    /\ \E t \in ReturnedSlots :
          /\ \E e \in calendar : e.end = t
          /\ \E e \in calendar : e.start = t + Duration

(* C4, as claimed: for every window and duration the starts returned are   *)
(* strictly increasing and the slots pairwise disjoint.                    *)
C4_IncreasingAndDisjoint ==
    SlotsComputed =>
        \A i, j \in DOMAIN avail.slots :
            i < j => /\ avail.slots[i] < avail.slots[j]
                     /\ avail.slots[i] + Duration <= avail.slots[j]

(* C4, amended: the starts returned are strictly increasing for every      *)
(* window and duration; the slots are pairwise disjoint when the duration  *)
(* is at most the 60-minute step.                                          *)
C4_IncreasingDisjointUpToStep ==
    SlotsComputed =>
        \A i, j \in DOMAIN avail.slots :
            i < j => /\ avail.slots[i] < avail.slots[j]
                     /\ (Duration <= 60 =>
                            avail.slots[i] + Duration <= avail.slots[j])

C4_Witness ==
    /\ SlotsComputed
    /\ Duration = 60
    /\ Len(avail.slots) >= 3
    /\ calendar # {}

(* C5: when no event intersects the business window and the window is at   *)
(* least one duration wide, floor((window - duration) / 60) + 1 slots are  *)
(* returned.                                                               *)
C5_SlotCount ==
    LET d == avail.date.day
        window == WindowEnd(d) - WindowStart(d) IN
    (/\ SlotsComputed
     /\ window >= Duration
     /\ \A e \in calendar : ~(e.start < WindowEnd(d) /\ e.end > WindowStart(d)))
    => Len(avail.slots) = (window - Duration) \div 60 + 1

C5_Witness ==
    LET d == avail.date.day
        window == WindowEnd(d) - WindowStart(d) IN
    /\ SlotsComputed
    /\ calendar # {}
    /\ \A e \in calendar : ~(e.start < WindowEnd(d) /\ e.end > WindowStart(d))
    /\ (window - Duration) % 60 # 0
    /\ Len(avail.slots) = 2

(* C6: a date string that does not parse gets the empty list, and no       *)
(* exception, whatever the state of the credentials and of the calendar.   *)
C6_InvalidDateReturnsEmpty ==
    (avail.called /\ avail.date.fmt = "garbage") =>
        (avail.outcome = "returned" /\ avail.slots = <<>>)

(* C7: when the calendar source fails, while listing the events or while   *)
(* the client is obtained from the credentials, the empty list is returned *)
(* and nothing is raised.                                                  *)
C7_SourceFailureReturnsEmpty ==
    (avail.called /\ (~avail.listOk \/ credentials # "valid")) =>
        (avail.outcome = "returned" /\ avail.slots = <<>>)

----------------------------------------------------------------------------
(* Booking: what the claims speak of                                       *)

(* The instant a start_time string denotes, on the scale of the fixed      *)
(* timezone (UTC+02:00).                                                   *)
Denotes(start_time) ==
    IF start_time.fmt = "utc" THEN start_time.minute + 120 ELSE start_time.minute

Readable(start_time) == start_time.fmt # "garbage"

InThePast(start_time) == Readable(start_time) /\ Denotes(start_time) < now

LaterToday(start_time) ==
    /\ Readable(start_time)
    /\ Denotes(start_time) >= now
    /\ Denotes(start_time) \div (24 * 60) = now \div (24 * 60)

(* A step in which a request is handled: resp becomes the response to it,  *)
(* with the start_time the request carried.                                *)
BookAppointmentStep == resp.op = "none" /\ resp'.op = "book_appointment"

BookOnboardingStep == resp.op = "none" /\ resp'.op = "book_onboarding"

(* C8: POST /book-appointment with start_time < now is answered 400 with   *)
(* the PastDate error (also when start_time is earlier today), and leaves  *)
(* no calendar event, no Booking and no notification.  The error is        *)
(* PastDate whenever the calendar client can be built; without             *)
(* credentials the 400 carries get_calendar_service's error.               *)
C8_PastStartIsRejected ==
    [][(BookAppointmentStep /\ InThePast(resp'.start_time))
          => /\ resp'.status = 400
             /\ (credentials = "valid" => resp'.error = "PastDate")
             /\ calendar' = calendar
             /\ meetings' = meetings
             /\ outbox' = outbox]_vars

(* A start earlier today was refused as PastDate. *)
C8_Witness ==
    /\ resp.op = "book_appointment"
    /\ resp.status = 400
    /\ resp.error = "PastDate"
    /\ InThePast(resp.start_time)
    /\ Denotes(resp.start_time) \div (24 * 60) = now \div (24 * 60)

(* C9: POST /book-appointment with start_time >= now on the calendar day   *)
(* of now is answered with the SameDay error (a 400), and leaves no        *)
(* calendar event, no Booking and no notification.  The error is SameDay   *)
(* whenever the calendar client can be built.                              *)
C9_SameDayStartIsRejected ==
    [][(BookAppointmentStep /\ LaterToday(resp'.start_time))
          => /\ resp'.status = 400
             /\ (credentials = "valid" => resp'.error = "SameDay")
             /\ calendar' = calendar
             /\ meetings' = meetings
             /\ outbox' = outbox]_vars

(* A start later today was refused as SameDay. *)
C9_Witness ==
    /\ resp.op = "book_appointment"
    /\ resp.status = 400
    /\ resp.error = "SameDay"
    /\ LaterToday(resp.start_time)
    /\ Denotes(resp.start_time) > now

(* C10: book_zappies_onboarding_call_from_json with a start_time in the    *)
(* past or on the calendar day of now fails and inserts no Booking in      *)
(* status pending_confirmation.                                            *)
C10_DeferredBookingValidatesStart ==
    [][(BookOnboardingStep
          /\ (InThePast(resp'.start_time) \/ LaterToday(resp'.start_time)))
          => /\ resp'.error # "none"
             /\ \A m \in meetings' \ meetings :
                   m.status # "pending_confirmation"]_vars

OnALaterDay(start_time) ==
    /\ Readable(start_time)
    /\ Denotes(start_time) \div (24 * 60) > now \div (24 * 60)

(* C11: POST /book-appointment with start_time on a later calendar day     *)
(* succeeds and leaves exactly one new calendar event, at that start, and  *)
(* exactly one new Booking with status confirmed whose                     *)
(* google_calendar_event_id is the id of that event.  The request is       *)
(* answered 500 instead only when the calendar or the store raised.        *)
C11_LaterDayStartIsBooked ==
    [][(BookAppointmentStep /\ OnALaterDay(resp'.start_time)
           /\ credentials = "valid")
          => \/ /\ resp'.status = 500
                /\ resp'.error \in {"HttpError", "APIError"}
             \/ /\ resp'.status = 200
                /\ \E e \in calendar' \ calendar :
                      /\ calendar' = calendar \cup {e}
                      /\ e.start = Denotes(resp'.start_time)
                      /\ \E m \in meetings' \ meetings :
                            /\ meetings' = meetings \cup {m}
                            /\ m.status = "confirmed"
                            /\ m.google_calendar_event_id = e.id]_vars

(* A start given on the UTC clock, late on day 0, was booked on day 1. *)
C11_Witness ==
    /\ resp.op = "book_appointment"
    /\ resp.status = 200
    /\ resp.start_time.fmt = "utc"
    /\ \E m \in meetings : \E e \in calendar :
          /\ m.status = "confirmed"
          /\ m.google_calendar_event_id = e.id
          /\ e.start \div (24 * 60) = 1

(* A step in which the handler of /confirm-meeting/{id} runs. *)
ConfirmStep == resp.op = "none" /\ resp'.op = "confirm_meeting"

(* The window [start, start + duration) of a start_time overlaps event e. *)
OverlapsEvent(start_time, e) ==
    /\ Readable(start_time)
    /\ Denotes(start_time) < e.end
    /\ Denotes(start_time) + Duration > e.start

(* C12: a booking (POST /book-appointment) or a confirmation               *)
(* (/confirm-meeting/{id}) whose window [start, start+duration) overlaps   *)
(* an event already on the calendar fails with Overlap and creates no      *)
(* second event.                                                           *)
C12_OverlappingStartIsRejected ==
    [][((BookAppointmentStep \/ ConfirmStep)
           /\ \E e \in calendar : OverlapsEvent(resp'.start_time, e))
          => /\ resp'.error = "Overlap"
             /\ calendar' = calendar]_vars

(* C13: a Booking made by book_zappies_onboarding_call_from_json is        *)
(* inserted with status pending_confirmation and no                       *)
(* google_calendar_event_id, the call creates no calendar event, and an    *)
(* event for the Booking is created only by a run of                       *)
(* /confirm-meeting/{id} for its id.                                       *)
C13_PendingHasNoEventUntilConfirm ==
    [][/\ BookOnboardingStep =>
            /\ calendar' = calendar
            /\ \A m \in meetings' \ meetings :
                  /\ m.status = "pending_confirmation"
                  /\ m.google_calendar_event_id = 0
                  /\ \A e \in calendar' : e.summary # m.id
       /\ \A e \in calendar' \ calendar :
             e.summary # 0 => (ConfirmStep /\ resp'.meeting_id = e.summary)]_vars

(* A pending Booking has waited half a day with no event, a confirmation   *)
(* of it has been sent and not yet run.                                    *)
C13_Witness ==
    /\ now > 9 * 60
    /\ \E m \in meetings :
          /\ m.status = "pending_confirmation"
          /\ m.google_calendar_event_id = 0
          /\ \A e \in calendar : e.summary # m.id
          /\ \E c \in Clients : inflight[c] = m.id

(* C14: when book_zappies_onboarding_call_from_json has inserted a         *)
(* pending_confirmation Booking, it hands over the confirmation email      *)
(* carrying the id of that Booking and reports success.                    *)
C14_PendingBookingIsMailed ==
    [][(BookOnboardingStep /\ meetings' # meetings)
          => /\ resp'.error = "none"
             /\ \A m \in meetings' \ meetings :
                   \/ Len(outbox') = Len(outbox)
                   \/ /\ Len(outbox') = Len(outbox) + 1
                      /\ outbox'[Len(outbox')].kind = "confirmation_email"
                      /\ outbox'[Len(outbox')].ref = m.id]_vars

(* The row of "meetings" with the given id, before and after a step. *)
RowsOf(meeting_id) == {m \in meetings : m.id = meeting_id}

RowsAfter(meeting_id) == {m \in meetings' : m.id = meeting_id}

(* The events whose details are those of the Booking with the given id. *)
EventsOf(meeting_id) == {e \in calendar : e.summary = meeting_id}

(* C15: /confirm-meeting/{id} called twice in sequence on a pending        *)
(* Booking creates exactly one calendar event and leaves status confirmed: *)
(* the call that answers "Thank You!" adds one event and stores its id     *)
(* with status confirmed, and a call on a confirmed Booking changes        *)
(* neither the Booking, nor the calendar, nor anything else.               *)
C15_SecondConfirmIsNoOp ==
    [][ConfirmStep =>
          /\ resp'.error = "none" =>
                \E m \in RowsOf(resp'.meeting_id) :
                   /\ m.status = "pending_confirmation"
                   /\ \E e \in calendar' \ calendar :
                         /\ calendar' = calendar \cup {e}
                         /\ e.summary = m.id
                         /\ RowsAfter(m.id) =
                               {[m EXCEPT !.status = "confirmed",
                                          !.google_calendar_event_id = e.id]}
          /\ (\E m \in RowsOf(resp'.meeting_id) : m.status = "confirmed") =>
                /\ resp'.error \in {"AlreadyConfirmed", "DatabaseError"}
                /\ calendar' = calendar
                /\ meetings' = meetings
                /\ outbox' = outbox]_vars

(* The second call was answered "Already Confirmed", with the one event of *)
(* the first call on the calendar.                                         *)
C15_Witness ==
    /\ resp.op = "confirm_meeting"
    /\ resp.error = "AlreadyConfirmed"
    /\ Cardinality(EventsOf(resp.meeting_id)) = 1
    /\ \E m \in RowsOf(resp.meeting_id) :
          /\ m.status = "confirmed"
          /\ \E e \in EventsOf(m.id) : m.google_calendar_event_id = e.id

(* C16: over any sequence of /confirm-meeting/{id} calls for one Booking,  *)
(* also when a call creates the event and its update of "meetings" fails,  *)
(* at most one calendar event is created for the Booking.                  *)
C16_AtMostOneEventPerBooking ==
    \A meeting_id \in MeetingIds : Cardinality(EventsOf(meeting_id)) <= 1

(* C17: of two /confirm-meeting/{id} requests for the same Booking in      *)
(* flight at the same time, the one that runs first and creates the event  *)
(* leaves the Booking confirmed, so the other does not observe             *)
(* pending_confirmation and creates no second event.                       *)
C17_InFlightConfirmsAreSerialized ==
    [][\A c \in Clients :
          (/\ ConfirmStep
           /\ inflight[c] # 0 /\ inflight'[c] = 0
           /\ \E other \in Clients \ {c} : inflight[other] = inflight[c]
           /\ calendar' # calendar)
          => /\ \A m \in RowsAfter(inflight[c]) : m.status = "confirmed"
             /\ Cardinality({e \in calendar' : e.summary = inflight[c]}) <= 1]_vars

(* C18: at most one /chat request of a conversation_id is inside           *)
(* "async with lock" at any time, a request reads the status only when no  *)
(* other request of its conversation_id is inside, and a request waiting   *)
(* for the lock is never held up by requests of other conversation_ids.    *)
SameConversation(r1, r2) ==
    chat_pc[r1].conversation_id = chat_pc[r2].conversation_id

C18_OneChatPerConversation ==
    /\ [](\A r1, r2 \in ChatRequests :
             (r1 # r2 /\ InsideLock(r1) /\ InsideLock(r2))
                => ~SameConversation(r1, r2))
    /\ [](\A r \in ChatRequests :
             (/\ chat_pc[r].at = "lock"
              /\ \A r2 \in ChatRequests \ {r} :
                    InsideLock(r2) => ~SameConversation(r, r2))
             => ENABLED (\E env \in ChatEnvironments : ChatEnter(r, env)))
    /\ [][\A r \in ChatRequests :
             (chat_pc[r].at = "lock" /\ chat_pc'[r].at # "lock")
                => \A r2 \in ChatRequests \ {r} :
                      InsideLock(r2) => ~SameConversation(r, r2)]_vars

(* Two requests of different conversations are inside their locks while a  *)
(* third waits for the lock one of them holds.                             *)
C18_Witness ==
    \E r1, r2, r3 \in ChatRequests :
       /\ InsideLock(r1) /\ InsideLock(r3)
       /\ ~SameConversation(r1, r3)
       /\ chat_pc[r2].at = "lock"
       /\ SameConversation(r1, r2)

(* C19: in POST /book-appointment, once the event, the confirmed Booking   *)
(* and the call log are stored, a failed email or SMS dispatch does not    *)
(* fail the request and undoes nothing: the answer is the success message, *)
(* the Booking is confirmed and its event is on the calendar.              *)
Expected(m) == IF m.client_number # NoPhone THEN 2 ELSE 1

C19_NotificationFailureIsNotFatal ==
    [][(BookAppointmentStep /\ call_history' # call_history)
          => \A m \in meetings' \ meetings :
                Len(outbox') < Len(outbox) + Expected(m)
                => /\ resp'.status = 200
                   /\ m.status = "confirmed"
                   /\ \E e \in calendar' : e.id = m.google_calendar_event_id]_vars

(* A booking with a phone number was answered with the success message     *)
(* though its email was not accepted: only the SMS is in the outbox.       *)
C19_Witness ==
    /\ resp.op = "book_appointment"
    /\ resp.status = 200
    /\ \E m \in meetings : m.client_number # NoPhone /\ m.status = "confirmed"
    /\ Len(outbox) = 1
    /\ outbox[1].kind = "sms_confirmation"

(* C20: in every state a Booking with status confirmed has a               *)
(* google_calendar_event_id that is the id of an event on the calendar,    *)
(* and a Booking with status pending_confirmation has no event on the      *)
(* calendar.                                                               *)
C20_StatusAgreesWithCalendar ==
    \A m \in meetings :
       /\ m.status = "confirmed" =>
             \E e \in calendar : e.id = m.google_calendar_event_id
       /\ m.status = "pending_confirmation" => EventsOf(m.id) = {}

----------------------------------------------------------------------------
(* Cancelling and rescheduling: what the claims speak of                   *)

(* A step in which a tool function is run: resp becomes its answer. *)
CancelStep == resp.op = "none" /\ resp'.op = "cancel_appointment"

RescheduleStep == resp.op = "none" /\ resp'.op = "reschedule_appointment"

(* The pair is the contact email and start_time of a Booking record. *)
MatchesBooking(email, start_time) ==
    \E m \in meetings :
       /\ m.email = email
       /\ Readable(m.start_time)
       /\ Denotes(m.start_time) = Denotes(start_time)

(* C21: cancel_appointment_from_json and reschedule_appointment_from_json  *)
(* called with an (email, original_start_time) pair that matches no        *)
(* Booking answer NotFound and leave the calendar and the Booking records  *)
(* as they were.  Stated for a pair whose start_time reads as a time and   *)
(* for a calendar that has credentials and answers every call.             *)
C21_UnmatchedPairIsNotFound ==
    [][((CancelStep \/ RescheduleStep)
           /\ resp'.error # "InvalidDetails"
           /\ credentials = "valid"
           /\ resp'.raises = "nothing"
           /\ Readable(resp'.original_start_time)
           /\ ~MatchesBooking(resp'.email, resp'.original_start_time))
          => /\ resp'.error = "NotFound"
             /\ calendar' = calendar
             /\ meetings' = meetings]_vars

(* C22: for every confirmed Booking, made by POST /book-appointment or by  *)
(* the onboarding tool and /confirm-meeting/{id}, a cancel or reschedule   *)
(* called with its email and its stored start_time finds it: the answer is *)
(* not NotFound.  Stated for a calendar that answers every call and for a  *)
(* Booking whose event is on the calendar at the stored start_time.        *)
C22_ConfirmedBookingIsLocated ==
    [][((CancelStep \/ RescheduleStep)
           /\ resp'.raises = "nothing"
           /\ \E m \in meetings :
                 /\ m.status = "confirmed"
                 /\ m.email = resp'.email
                 /\ m.start_time = resp'.original_start_time
                 /\ \E e \in calendar :
                       /\ e.id = m.google_calendar_event_id
                       /\ e.start = Denotes(m.start_time))
          => resp'.error # "NotFound"]_vars

(* C23: after a cancel that answered success, the Booking whose event was  *)
(* deleted has status cancelled.                                           *)
C23_CancelMarksBookingCancelled ==
    [][(CancelStep /\ resp'.error = "none")
          => \A m \in meetings' :
                m.google_calendar_event_id = resp'.event_id
                   => m.status = "cancelled"]_vars

(* The slots get_available_slots returns for day d. *)
SlotsOfDay(d) ==
    LET got == get_available_slots([fmt |-> "date", day |-> d, tod |-> 0], TRUE)
    IN  {got.slots[i] : i \in DOMAIN got.slots}

(* C24: after a cancel that answered success the event found is no longer  *)
(* on the calendar, and get_available_slots for its day returns again      *)
(* every slot the event kept busy that no other event overlaps.            *)
C24_CancelledSlotIsAvailableAgain ==
    [][(CancelStep /\ resp'.error = "none")
          => /\ \A e \in calendar' : e.id # resp'.event_id
             /\ \A ev \in calendar :
                   ev.id = resp'.event_id =>
                      \A t \in Candidates(DateOf(ev.start)) :
                         (Busy(t, ev) /\ \A e \in calendar' : ~Busy(t, e))
                            => t \in SlotsOfDay(DateOf(ev.start))']_vars

(* The booking of nine o'clock on day 1 was cancelled: its event is gone   *)
(* and nine o'clock is a slot of day 1 again.                              *)
C24_Witness ==
    /\ resp.op = "cancel_appointment"
    /\ resp.error = "none"
    /\ resp.raises = "nothing"
    /\ \E m \in meetings :
          /\ m.google_calendar_event_id = resp.event_id
          /\ m.start_time = resp.original_start_time
          /\ \A e \in calendar : e.id # m.google_calendar_event_id
          /\ Denotes(m.start_time) \in SlotsOfDay(DateOf(Denotes(m.start_time)))

(* C25: delete_calendar_event on an event that is no longer on the         *)
(* calendar returns without raising, whether the provider answers 410      *)
(* (gone) or 404 (not found): the cancel that called it answers success.   *)
C25_DeleteOfVanishedEventSucceeds ==
    [][(CancelStep /\ resp'.event_id # 0
           /\ resp'.raises \in {"gone", "not_found"})
          => resp'.error = "none"]_vars

(* C26: after a reschedule to new_start_time that answered success, the    *)
(* event's window is [new_start_time, new_start_time + duration) and the   *)
(* start_time of the Booking of that event denotes new_start_time.         *)
C26_RescheduleMovesEventAndBooking ==
    [][(RescheduleStep /\ resp'.error = "none")
          => /\ \E e \in calendar' :
                   /\ e.id = resp'.event_id
                   /\ e.start = Denotes(resp'.start_time)
                   /\ e.end = Denotes(resp'.start_time) + Duration
             /\ \A m \in meetings' :
                   m.google_calendar_event_id = resp'.event_id
                      => /\ Readable(m.start_time)
                         /\ Denotes(m.start_time) = Denotes(resp'.start_time)]_vars

----------------------------------------------------------------------------
(* The reminder job: what the claims speak of                              *)

ThresholdNames == {Thresholds[i] : i \in DOMAIN Thresholds}

(* The reminders of a threshold Twilio accepted for a booking. *)
RemindersSent(id, threshold) ==
    {i \in DOMAIN outbox :
        outbox[i].kind = ReminderKind(threshold) /\ outbox[i].ref = id}

(* A step in which the job runs. *)
SweepStep == swept' # swept

(* The booking is one the pass of the threshold selects now. *)
Due(m, threshold) ==
    /\ m \in select_meetings(meetings, threshold)
    /\ threshold = "morning" => morning_hour(now)

C28_FlagOnlyOnSuccess ==
    [][\A m \in meetings, threshold \in ThresholdNames :
          (m.client_number # NoPhone /\ ~reminder_sent(m, threshold)) =>
             \A after \in {r \in meetings' : r.id = m.id} :
                /\ reminder_sent(after, threshold) =>
                      /\ SweepStep
                      /\ <<m.id, threshold>> \in swept'.delivered
                      /\ Len(outbox') > Len(outbox)
                /\ (SweepStep /\ <<m.id, threshold>> \in
                                    swept'.attempted \ swept'.delivered)
                      => ~reminder_sent(after, threshold)]_vars

(* In one run the SMS of one Booking was refused and its flag is false,    *)
(* the SMS of another was accepted and its flag is true.                   *)
C28_Witness ==
    /\ SweptNow
    /\ \E m1, m2 \in meetings, threshold \in ThresholdNames :
          /\ <<m1.id, threshold>> \in swept.attempted \ swept.delivered
          /\ ~reminder_sent(m1, threshold)
          /\ <<m2.id, threshold>> \in swept.delivered
          /\ reminder_sent(m2, threshold)

(* C29: a Booking whose reminder dispatch failed for a threshold is        *)
(* selected and attempted again by the run of the job one interval (30     *)
(* minutes) later, for each of the three thresholds, as long as the        *)
(* meeting has not started.                                                *)
C29_FailedDispatchIsRetriedNextSweep ==
    [][(SweepStep /\ swept.ran /\ swept.at + SweepInterval = now
           /\ ~swept'.aborted)
          => \A m \in meetings, threshold \in ThresholdNames :
                (/\ <<m.id, threshold>> \in swept.attempted \ swept.delivered
                 /\ start_time_of(m) > now)
                   => <<m.id, threshold>> \in swept'.attempted]_vars

(* C30: within one run of the job, a failure while processing one Booking  *)
(* (a dispatch that fails, or an update of its flag that raises) never     *)
(* prevents the other Bookings the pass selects, nor the later passes of   *)
(* the same run, from being processed: every Booking due for a threshold,  *)
(* other than the one whose update raised, is handed to send_sms_reminder  *)
(* or has its flag marked.                                                 *)
C30_FailureDoesNotAbortSweep ==
    [][(SweepStep /\ (swept'.aborted => swept'.raised # {}))
          => \A m \in meetings, threshold \in ThresholdNames :
                (Due(m, threshold) /\ <<m.id, threshold>> \notin swept'.raised)
                   => <<m.id, threshold>> \in
                         swept'.attempted \cup swept'.marked]_vars

(* C31: a Booking without client_number that a pass selects has its        *)
(* reminder_<threshold>_sent set to true in that run, nothing is handed to *)
(* send_sms_reminder for it, and no later run selects it for that          *)
(* threshold.  Stated for a store that answers the selects and updates.    *)
C31_NoPhoneIsMarkedWithoutDispatch ==
    [][SweepStep =>
          \A m \in meetings, threshold \in ThresholdNames :
             m.client_number = NoPhone =>
                /\ Due(m, threshold) =>
                      /\ \A after \in {r \in meetings' : r.id = m.id} :
                            reminder_sent(after, threshold)
                      /\ <<m.id, threshold>> \notin swept'.attempted
                      /\ \A i \in DOMAIN outbox' : outbox'[i].ref # m.id
                /\ reminder_sent(m, threshold) =>
                      <<m.id, threshold>> \notin swept'.selected]_vars

(* A run has marked a Booking without phone number for the threshold whose *)
(* window it is in, and sent nothing for it.                               *)
C31_Witness ==
    /\ SweptNow
    /\ \E m \in meetings, threshold \in ThresholdNames :
          /\ m.client_number = NoPhone
          /\ m.status = "confirmed"
          /\ in_window(threshold, now, start_time_of(m))
          /\ reminder_sent(m, threshold)
          /\ <<m.id, threshold>> \in swept.marked \ swept.attempted
          /\ \A i \in DOMAIN outbox : outbox[i].ref # m.id

(* C32: each reminder flag of a Booking is monotonic: once                 *)
(* reminder_24h_sent, reminder_morning_sent or reminder_1h_sent is true,   *)
(* no run of the job, confirmation, cancel or reschedule sets it back to   *)
(* false (or removes the row).                                             *)
C32_ReminderFlagsAreMonotonic ==
    [][\A m \in meetings, threshold \in ThresholdNames :
          reminder_sent(m, threshold) =>
             \E after \in meetings' :
                after.id = m.id /\ reminder_sent(after, threshold)]_vars

(* A Booking with its morning-of and 1h flags set has been rescheduled or  *)
(* cancelled with success, and the flags are still set.                    *)
C32_Witness ==
    /\ resp.op \in {"cancel_appointment", "reschedule_appointment"}
    /\ resp.error = "none"
    /\ \E m \in meetings :
          /\ m.google_calendar_event_id = resp.event_id
          /\ reminder_sent(m, "morning")
          /\ reminder_sent(m, "1h")

(* The window of a threshold as the contract words it. *)
InThresholdWindow(threshold, start_time) ==
    CASE threshold = "24h" ->
            start_time - now >= 24 * 60 /\ start_time - now < 25 * 60
      [] threshold = "1h" ->
            start_time - now >= 60 /\ start_time - now < 90
      [] threshold = "morning" ->
            /\ start_time \div (24 * 60) = now \div (24 * 60)
            /\ (now % (24 * 60)) \div 60 = 8

(* C33: a reminder for a threshold is handed to send_sms_reminder only for *)
(* a Booking that, when the job runs, has status confirmed, has the flag   *)
(* of that threshold false and has start_time in the window of the         *)
(* threshold: [now+24h, now+25h), [now+60min, now+90min), today while the  *)
(* hour is 8.  None is dispatched for a pending_confirmation Booking.      *)
C33_DispatchOnlyForDueBookings ==
    [][SweepStep =>
          \A pair \in swept'.attempted :
             \E m \in meetings :
                /\ m.id = pair[1]
                /\ m.status = "confirmed"
                /\ ~reminder_sent(m, pair[2])
                /\ InThresholdWindow(pair[2], start_time_of(m))]_vars

(* A run has sent the 24h reminder of a confirmed Booking and selected     *)
(* nothing for a pending Booking with the same start_time.                 *)
C33_Witness ==
    /\ SweptNow
    /\ \E m1, m2 \in meetings :
          /\ <<m1.id, "24h">> \in swept.delivered
          /\ m2.status = "pending_confirmation"
          /\ m2.start_time = m1.start_time
          /\ \A threshold \in ThresholdNames :
                <<m2.id, threshold>> \notin swept.selected

(* C34: with the job triggered every 30 minutes and every dispatch         *)
(* succeeding, every confirmed Booking with a phone number has its 24h     *)
(* reminder sent and its 1h reminder sent: no start_time falls between the *)
(* windows of consecutive runs.  "Eventually" is stated with its deadline: *)
(* once a run has ended at a time later than start_time - 25h the 24h      *)
(* reminder has been sent, and once one has ended later than               *)
(* start_time - 90min the 1h reminder has been sent.                       *)
C34_RemindersAreSentInTime ==
    SweptNow =>
       \A m \in meetings :
          (m.status = "confirmed" /\ m.client_number # NoPhone) =>
             /\ now > start_time_of(m) - 25 * 60 =>
                   /\ reminder_sent(m, "24h")
                   /\ RemindersSent(m.id, "24h") # {}
             /\ now > start_time_of(m) - 90 =>
                   /\ reminder_sent(m, "1h")
                   /\ RemindersSent(m.id, "1h") # {}

(* Two confirmed Bookings with phone numbers and different start_times     *)
(* have both been sent their 24h and their 1h reminders, by runs that are  *)
(* not on the hour or the half hour.                                       *)
C34_Witness ==
    /\ now % SweepInterval # 0
    /\ \E m1, m2 \in meetings :
          /\ m1.start_time # m2.start_time
          /\ \A m \in {m1, m2} :
                /\ m.status = "confirmed"
                /\ m.client_number # NoPhone
                /\ reminder_sent(m, "24h")
                /\ RemindersSent(m.id, "24h") # {}
                /\ reminder_sent(m, "1h")
                /\ RemindersSent(m.id, "1h") # {}

----------------------------------------------------------------------------
(* The busy intervals of a day                                             *)

(* The events get_available_slots asks the calendar for: those of          *)
(* [day_start, day_start + 1 day), day_start being the date string read as *)
(* a local datetime.                                                       *)
fetched_events(date) ==
    LET day_start == localize(fromisoformat(date)) IN
    events_list(day_start.instant, day_start.instant + DayMinutes)

Midnight(date) == date.day * DayMinutes

(* C35: for every date string get_available_slots accepts, an ISO string   *)
(* with a time of day included, the events it fetches are all the events   *)
(* that overlap [midnight, midnight + 24h) of that date.                   *)
C35_FetchedEventsCoverTheDay ==
    SlotsComputed =>
        \A e \in calendar :
            (e.end > Midnight(avail.date) /\ e.start < Midnight(avail.date) + DayMinutes)
                => e \in fetched_events(avail.date)

----------------------------------------------------------------------------
(* Reminders after a cancellation                                          *)

(* The confirmed Booking m was cancelled with success: its event, created  *)
(* at confirmation, has been deleted from the calendar, which only         *)
(* cancel_appointment_from_json does.                                      *)
WasCancelled(m) ==
    /\ m.google_calendar_event_id # 0
    /\ \A e \in calendar : e.id # m.google_calendar_event_id

(* C36: once a cancel of a confirmed Booking has answered success, no      *)
(* later run of the reminder job dispatches a reminder for that Booking.   *)
C36_NoReminderAfterCancel ==
    [][SweepStep =>
          \A m \in meetings :
             WasCancelled(m) =>
                \A threshold \in ThresholdNames :
                   <<m.id, threshold>> \notin swept'.attempted]_vars

----------------------------------------------------------------------------
(* What a failed request leaves behind                                     *)

(* C37: a createBooking of either mode (POST /book-appointment,            *)
(* book_zappies_onboarding_call_from_json) that reports a failure has      *)
(* added no Booking record and no calendar event.                          *)
C37_FailedBookingLeavesNothing ==
    [][((BookAppointmentStep \/ BookOnboardingStep) /\ resp'.error # "none")
          => /\ meetings' = meetings
             /\ calendar' = calendar]_vars

(* C38: a /confirm-meeting/{id} run that fails for a pending Booking (its  *)
(* page is an error page: the start_time is in the past or on the current  *)
(* day, the calendar or the database does not answer) creates no calendar  *)
(* event and leaves the Booking pending_confirmation without               *)
(* google_calendar_event_id.                                               *)
C38_FailedConfirmLeavesBookingPending ==
    [][(ConfirmStep /\ resp'.error \in {"Error", "DatabaseError"})
          => \A m \in RowsOf(resp'.meeting_id) :
                m.status = "pending_confirmation"
                   => /\ calendar' = calendar
                      /\ m \in meetings'
                      /\ m.google_calendar_event_id = 0]_vars

----------------------------------------------------------------------------
(* The slots the voice endpoint offers                                     *)

(* C39: every slot POST /get-availability offers can be booked at once as  *)
(* far as the date rules go: create_calendar_event called with the slot's  *)
(* iso_8061 string at the same moment rejects it neither as in the past    *)
(* nor as a same-day appointment.                                          *)
C39_OfferedSlotsAreBookable ==
    (avail.called /\ avail.outcome = "available_slots_found") =>
        \A i \in DOMAIN avail.slots :
            create_calendar_event(isoformat(avail.slots[i]), 0, <<>>, TRUE).error
                \notin {"PastDate", "SameDay"}

----------------------------------------------------------------------------
(* Reminders and meetings that have started                                *)

(* The Booking the pair <<id, threshold>> of a run is about. *)
BookingOf(pair) == CHOOSE m \in meetings : m.id = pair[1]

====
